---- MODULE Spec2Model ----
(***************************************************************************)
(* Buildinator: the build-iteration engine of src/buildinator.py.          *)
(*                                                                         *)
(* State: the App table (Submissions), the Iteration table (the log), the  *)
(* build queue, the request threads of the web server that are inside      *)
(* build(), and the single build_worker thread.                            *)
(*                                                                         *)
(* The ORM objects are modelled as the code uses them: build() puts the    *)
(* App object itself on the queue, and the worker reads and writes the     *)
(* attributes of the object it dequeued.  An App is a handle (its index in *)
(* the variable App); a later build() for the same name finds and updates  *)
(* the same object.  Deleting the row leaves the object in memory (in_db   *)
(* becomes FALSE): whoever still holds it reads its attributes, and a      *)
(* write to it no longer reaches the table.                                *)
(*                                                                         *)
(* Text (code, oracle responses, build output) is a sequence of one        *)
(* character strings, so that split and strip are computed, not assumed.   *)
(***************************************************************************)
EXTENDS Integers, Sequences, FiniteSets, TLC

\* ------------------------------------------------------------------ bounds

\* Number of POST /build requests the model lets start.
MaxBuilds == 2

\* The same, for the runs that repeat one request (SpecRepeat).
MaxRepeatBuilds == 3

\* The requests of a run in which Iterations are deleted by hand as well.
MaxLogBuilds == 2

\* ------------------------------------------------------- program constants

\* Config.MAX_IDENTICAL_ITERATIONS of config.py; buildinator.py defines its
\* own Config without it and never reads it.
MAX_IDENTICAL_ITERATIONS == 3

\* ------------------------------------------------------------ input domains

Names == {"demo", "other"}

Prompts == {"p1"}

Codes == {<<"a">>, <<"b">>}

\* The form offers py and cs; build() does not validate the field.  The
\* model submits one language execute_code knows and one it does not.
Languages == {"py", "js"}

\* Request threads of the web server that can be inside build() at once.
Threads == {1, 2}

\* The backquote character (a string literal cannot hold one).
Backtick == "BQ"

\* The fence of run_llm: three backquotes.
Fence == <<Backtick, Backtick, Backtick>>

\* Texts the model lets the oracle answer: no fence, a fenced block, a block
\* with text around it, an opening fence that is never closed.
Responses ==
    { <<"b">>,
      Fence \o <<"b">> \o Fence,
      <<"x">> \o Fence \o <<"a">> \o Fence \o <<"y">>,
      Fence \o <<"a">> }

\* Combined stdout+stderr the model lets a container produce: blank, and
\* an error message between blanks.
Logs == { <<" ", "\n">>, <<" ", "E", "\n">> }

\* Python's None, returned by execute_code for a language it does not know.
None == <<"None">>

\* ---------------------------------------------------------- pure functions

Whitespace == {" ", "\n", "\t"}

RECURSIVE lstrip(_)
lstrip(s) ==
    IF s # <<>> /\ Head(s) \in Whitespace THEN lstrip(Tail(s)) ELSE s

RECURSIVE rstrip(_)
rstrip(s) ==
    IF s # <<>> /\ s[Len(s)] \in Whitespace
    THEN rstrip(SubSeq(s, 1, Len(s) - 1))
    ELSE s

\* str.strip()
strip(s) == rstrip(lstrip(s))

\* Index of the first occurrence of sep in s, 0 when there is none.
find(s, sep) ==
    LET hits == { i \in 1..(Len(s) - Len(sep) + 1) :
                    SubSeq(s, i, i + Len(sep) - 1) = sep }
    IN  IF hits = {} THEN 0 ELSE CHOOSE i \in hits : \A j \in hits : i <= j

\* str.split(sep): the pieces between the leftmost non-overlapping seps.
RECURSIVE split(_, _)
split(s, sep) ==
    LET i == find(s, sep)
    IN  IF i = 0
        THEN <<s>>
        ELSE <<SubSeq(s, 1, i - 1)>>
             \o split(SubSeq(s, i + Len(sep), Len(s)), sep)

\* Lines 100/121: text.split(fence)[1].split(fence)[0]; an IndexError is
\* caught at line 123 and input_code is returned.
run_llm_parse(text, input_code) ==
    LET parts == split(text, Fence)
    IN  IF Len(parts) < 2 THEN input_code ELSE split(parts[2], Fence)[1]

\* run_llm when the completion call returns `text`.
run_llm(text, input_code) == run_llm_parse(text, input_code)

\* run_llm when the completion call raises: the except branch.
run_llm_failed(input_code) == input_code

\* execute_code when the container run returns `logs`.
execute_code(logs, language) ==
    IF language = "py" THEN logs
    ELSE IF language = "cs" THEN logs
    ELSE None

\* Mutant: the comparison without strip().
is_release_candidate_unstripped(build_output) == build_output = <<>>

\* Line 436.
is_release_candidate(build_output) == strip(build_output) = <<>>

\* ------------------------------------------------------------------- state

VARIABLES
    App,            \* sequence of App objects, by handle
    Iteration,      \* the Iteration table, in creation order
    build_queue,    \* queue.Queue of App handles
    unfinished_tasks, \* Queue.unfinished_tasks: put() adds, task_done() takes
    req,            \* per request thread: where it is inside build()
    worker,         \* the build_worker thread: its position and locals
    enqueued,       \* history: the handles put on the queue, in order
    last_request,   \* history: the last build request answered, and how
                    \* many requests in a row had its name and input_code
    passes          \* history: the handles whose pass recorded an Iteration

vars == <<App, Iteration, build_queue, unfinished_tasks, req, worker,
          enqueued, last_request, passes>>

Handles == 1..Len(App)

\* The rows of the App table.
Rows == { h \in Handles : App[h].in_db }

IdleReq == [pc |-> "idle", name |-> "", found |-> 0]

IdleWorker ==
    [pc |-> "Idle", app |-> 0, prompt |-> "", input_code |-> <<>>,
     language |-> "", output_code |-> <<>>, failed |-> FALSE]

NoRequest == [name |-> "", input_code |-> <<>>, run |-> 0, n |-> 0]

Init ==
    /\ App = <<>>
    /\ Iteration = <<>>
    /\ build_queue = <<>>
    /\ unfinished_tasks = 0
    /\ req = [t \in Threads |-> IdleReq]
    /\ worker = IdleWorker
    /\ enqueued = <<>>
    /\ last_request = NoRequest
    /\ passes = <<>>

\* ------------------------------------------------------------ build (POST)

\* Requests started so far: answered, or inside build().
Started ==
    last_request.n + Cardinality({ t \in DOMAIN req : req[t].pc # "idle" })

\* App.query.filter_by(name=app_name).first(): the oldest row of that name.
first_by_name(n) ==
    LET hits == { h \in Rows : App[h].name = n }
    IN  IF hits = {} THEN 0 ELSE CHOOSE h \in hits : \A g \in hits : h <= g

\* Line 342: the lookup.
BuildLookup(t, n, max) ==
    /\ req[t].pc = "idle"
    /\ Started < max
    /\ req' = [req EXCEPT ![t] = [pc |-> "found", name |-> n,
                                  found |-> first_by_name(n)]]
    /\ UNCHANGED <<App, Iteration, build_queue, unfinished_tasks, worker,
                   enqueued, last_request, passes>>

\* The object build() holds after lines 343-350, and the table after 352.
build_write(found, n, p, l, c) ==
    IF found # 0
    THEN [App EXCEPT ![found].prompt = p, ![found].input_code = c,
                     ![found].language = l, ![found].is_queued = TRUE]
    ELSE Append(App, [name |-> n, prompt |-> p, input_code |-> c,
                      language |-> l, is_queued |-> TRUE, in_db |-> TRUE])

\* The Iterations of name n, as positions in the log.
iterations_of(n) == { i \in 1..Len(Iteration) : Iteration[i].app_name = n }

\* The position of the most recent Iteration of name n (0: there is none).
latest_iteration(n) ==
    IF iterations_of(n) = {} THEN 0
    ELSE CHOOSE i \in iterations_of(n) : \A j \in iterations_of(n) : j <= i

\* Mutant: a guard that turns away every name that has been built before,
\* whatever code the request brings.
build_accepts_unbuilt_only(n, c) == latest_iteration(n) = 0

\* Whether build() enqueues the request: it always does (line 355).
build_accepts(n, c) == TRUE

\* Lines 343-357: update or insert, commit, put on the queue, answer.
BuildCommit(t, p, l, c) ==
    /\ req[t].pc = "found"
    /\ LET n == req[t].name
           found == req[t].found
           h == IF found # 0 THEN found ELSE Len(App) + 1
           same == last_request.name = n /\ last_request.input_code = c
       IN  /\ App' = build_write(found, n, p, l, c)
           /\ IF build_accepts(n, c)
              THEN /\ build_queue' = Append(build_queue, h)
                   /\ unfinished_tasks' = unfinished_tasks + 1
                   /\ enqueued' = Append(enqueued, h)
              ELSE UNCHANGED <<build_queue, unfinished_tasks, enqueued>>
           /\ last_request' =
                  [name |-> n, input_code |-> c,
                   run |-> IF same THEN last_request.run + 1 ELSE 1,
                   n |-> last_request.n + 1]
    /\ req' = [req EXCEPT ![t] = IdleReq]
    /\ UNCHANGED <<Iteration, worker, passes>>

\* ------------------------------------------------ the other request handlers

\* Mutant: a delete that takes the Iterations of the name with it.
delete_app_cascade(h) ==
    /\ h \in Rows
    /\ App' = [App EXCEPT ![h].in_db = FALSE]
    /\ Iteration' = SelectSeq(Iteration,
                              LAMBDA it : it.app_name # App[h].name)
    /\ UNCHANGED <<build_queue, unfinished_tasks, req, worker,
                   enqueued, last_request, passes>>

\* Lines 364-370.
delete_app(h) ==
    /\ h \in Rows
    /\ App' = [App EXCEPT ![h].in_db = FALSE]
    /\ UNCHANGED <<Iteration, build_queue, unfinished_tasks, req, worker,
                   enqueued, last_request, passes>>

\* Mutant: a removal that takes the pending items of the row off the queue.
remove_from_queue_purges(h) ==
    /\ h \in Rows
    /\ App[h].is_queued
    /\ App' = [App EXCEPT ![h].is_queued = FALSE]
    /\ build_queue' = SelectSeq(build_queue, LAMBDA g : g # h)
    /\ UNCHANGED <<Iteration, unfinished_tasks, req, worker,
                   enqueued, last_request, passes>>

\* Lines 380-386.
remove_from_queue(h) ==
    /\ h \in Rows
    /\ App[h].is_queued
    /\ App' = [App EXCEPT ![h].is_queued = FALSE]
    /\ UNCHANGED <<Iteration, build_queue, unfinished_tasks, req, worker,
                   enqueued, last_request, passes>>

\* The sequence s without its i-th element.
RemoveAt(s, i) == SubSeq(s, 1, i - 1) \o SubSeq(s, i + 1, Len(s))

\* Lines 372-378: the i-th Iteration of the log is deleted.
delete_iteration(i) ==
    /\ i \in 1..Len(Iteration)
    /\ Iteration' = RemoveAt(Iteration, i)
    /\ UNCHANGED <<App, build_queue, unfinished_tasks, req, worker,
                   enqueued, last_request, passes>>

\* ------------------------------------------------------------ build_worker

\* Mutant: a LIFO queue.
queue_get_newest(q) == Len(q)

\* Which queued item build_queue.get() hands out: the head (FIFO).
queue_get(q) == 1

\* Mutant: a worker that takes the next item while a pass is running.
worker_ready_always == worker.pc # "Dead"

\* Whether the worker can take an item: only between passes.
worker_ready == worker.pc = "Idle"

\* Line 421, line 422 (an App object is truthy), and the arguments of the
\* call of line 424.
Dequeue ==
    /\ worker_ready
    /\ build_queue # <<>>
    /\ LET i == queue_get(build_queue)
           h == build_queue[i]
       IN  /\ build_queue' = RemoveAt(build_queue, i)
           /\ worker' = [IdleWorker EXCEPT
                  !.pc = "Revising", !.app = h,
                  !.prompt = App[h].prompt,
                  !.input_code = App[h].input_code,
                  !.language = App[h].language]
    /\ UNCHANGED <<App, Iteration, unfinished_tasks, req, enqueued,
                   last_request, passes>>

\* run_llm returns (line 424); line 427 reads app.language for the call.
OracleDone(out, failed) ==
    /\ worker' = [worker EXCEPT !.pc = "Executing", !.output_code = out,
                                !.failed = failed,
                                !.language = App[worker.app].language]
    /\ UNCHANGED <<App, Iteration, build_queue, unfinished_tasks, req,
                   enqueued, last_request, passes>>

\* The completion call returns `text`; the except branch is taken when the
\* text holds no fence (IndexError).
OracleReturns(text) ==
    /\ worker.pc = "Revising"
    /\ OracleDone(run_llm(text, worker.input_code),
                  Len(split(text, Fence)) < 2)

\* The completion call raises.
OracleRaises ==
    /\ worker.pc = "Revising"
    /\ OracleDone(run_llm_failed(worker.input_code), TRUE)

\* The row of lines 430-437, its attributes read from the object now.
new_iteration(a, output_code, build_output) ==
    [app_name |-> a.name, prompt |-> a.prompt, input_code |-> a.input_code,
     output_code |-> output_code, build_output |-> build_output,
     is_release_candidate |-> is_release_candidate(build_output)]

\* Mutant: a store that puts the new row in front of the older ones.
session_add_first(log, row) == <<row>> \o log

\* Lines 438-439: the new row gets the next id, after every row of the log.
session_add(log, row) == Append(log, row)

\* Mutant: a status update that clears the flag of every row of the table.
UpdateStatus_all_rows ==
    /\ worker.pc = "Recording"
    /\ App' = [h \in DOMAIN App |-> [App[h] EXCEPT !.is_queued = FALSE]]
    /\ unfinished_tasks' = unfinished_tasks - 1
    /\ worker' = IdleWorker
    /\ UNCHANGED <<Iteration, build_queue, req, enqueued, last_request,
                   passes>>

\* execute_code returns (line 427) and lines 430-439 store the Iteration.
\* None has no strip(): line 436 raises AttributeError and the thread ends.
SandboxReturns(logs) ==
    /\ worker.pc = "Executing"
    /\ LET build_output == execute_code(logs, worker.language)
       IN  IF build_output = None
           THEN /\ worker' = [IdleWorker EXCEPT !.pc = "Dead"]
                /\ UNCHANGED <<Iteration, passes>>
           ELSE /\ Iteration' = session_add(Iteration,
                      new_iteration(App[worker.app], worker.output_code,
                                    build_output))
                /\ passes' = Append(passes, worker.app)
                /\ worker' = [IdleWorker EXCEPT !.pc = "Recording",
                                                !.app = worker.app]
    /\ UNCHANGED <<App, build_queue, unfinished_tasks, req, enqueued,
                   last_request>>

\* The docker client raises inside execute_code (lines 143-157, 160-168):
\* nothing in build_worker catches it, and the thread ends.
SandboxRaises ==
    /\ worker.pc = "Executing"
    /\ worker.language \in {"py", "cs"}
    /\ worker' = [IdleWorker EXCEPT !.pc = "Dead"]
    /\ UNCHANGED <<App, Iteration, build_queue, unfinished_tasks, req,
                   enqueued, last_request, passes>>

\* Lines 441-448: clear the flag on the object, commit, task_done().
UpdateStatus ==
    /\ worker.pc = "Recording"
    /\ App' = [App EXCEPT ![worker.app].is_queued = FALSE]
    /\ unfinished_tasks' = unfinished_tasks - 1
    /\ worker' = IdleWorker
    /\ UNCHANGED <<Iteration, build_queue, req, enqueued, last_request,
                   passes>>

\* ----------------------------------------------------------- specification

\* The steps of the worker thread.
Worker ==
    \/ Dequeue
    \/ \E text \in Responses : OracleReturns(text)
    \/ OracleRaises
    \/ \E logs \in Logs : SandboxReturns(logs)
    \/ SandboxRaises
    \/ UpdateStatus

\* The request handlers other than build().
Handlers ==
    \/ \E h \in Handles : delete_app(h)
    \/ \E h \in Handles : remove_from_queue(h)

Next ==
    \/ \E t \in Threads, n \in Names : BuildLookup(t, n, MaxBuilds)
    \/ \E t \in Threads, p \in Prompts, l \in Languages, c \in Codes :
           BuildCommit(t, p, l, c)
    \/ Handlers
    \/ Worker

Spec == Init /\ [][Next]_vars

\* The same program when every request is for the name "demo" with the
\* same form values, one request at a time.
NextRepeat ==
    \/ BuildLookup(1, "demo", MaxRepeatBuilds)
    \/ BuildCommit(1, "p1", "py", <<"a">>)
    \/ Handlers
    \/ Worker

SpecRepeat == Init /\ [][NextRepeat]_vars

\* The same program with delete_iteration among the handlers, one request
\* at a time.
NextLog ==
    \/ \E n \in Names : BuildLookup(1, n, MaxLogBuilds)
    \/ \E p \in Prompts, l \in Languages, c \in Codes : BuildCommit(1, p, l, c)
    \/ Handlers
    \/ \E i \in 1..MaxLogBuilds : delete_iteration(i)
    \/ Worker

SpecLog == Init /\ [][NextLog]_vars

\* The steps of the worker thread when the completion call and the sandbox
\* call return.
WorkerReturns ==
    \/ Dequeue
    \/ \E text \in Responses : OracleReturns(text)
    \/ \E logs \in Logs : SandboxReturns(logs)
    \/ UpdateStatus

NextFair ==
    \/ \E t \in Threads, n \in Names : BuildLookup(t, n, MaxBuilds)
    \/ \E t \in Threads, p \in Prompts, l \in Languages, c \in Codes :
           BuildCommit(t, p, l, c)
    \/ Handlers
    \/ WorkerReturns

\* The worker is a thread of its own running `while True` (lines 419-420,
\* 451-453): whenever it can take a step it eventually takes one.
SpecFair == Init /\ [][NextFair]_vars /\ WF_vars(WorkerReturns)

\* ------------------------------------------------------------------ claims

\* The phases of a pass: between the dequeue and task_done().
InPass == worker.pc \in {"Revising", "Executing", "Recording"}

\* A text is blank: trimming it leaves the empty string.
Blank(s) == \A k \in 1..Len(s) : s[k] \in Whitespace

\* The last row of the log.
Latest(log) == log[Len(log)]

\* C1: every Iteration in the log is a release candidate if and only if its
\* build output, trimmed, is empty.
C1_ReleaseCandidateIffBlank ==
    \A i \in 1..Len(Iteration) :
        Iteration[i].is_release_candidate <=> Blank(Iteration[i].build_output)

\* C1 witness: the log holds a release candidate whose output is blank but
\* not empty, and an Iteration that is no release candidate.
C1_Witness ==
    \E i, j \in 1..Len(Iteration) :
        /\ Iteration[i].is_release_candidate
        /\ Iteration[i].build_output # <<>>
        /\ ~Iteration[j].is_release_candidate

\* C2 (as claimed): no two rows of the App table share a name.
C2_OneRowPerName ==
    \A h, g \in Rows : App[h].name = App[g].name => h = g

\* C3 (as claimed): a request that is the third in a row with the same name
\* and the same input_code, made after the two before it were built, is
\* turned away: the queue and the log stay as they are.
C3_ThirdIdenticalRejected ==
    [][ ( /\ last_request'.n = last_request.n + 1
          /\ last_request'.run >= MAX_IDENTICAL_ITERATIONS
          /\ Cardinality({ i \in iterations_of(last_request'.name) :
                 Iteration[i].input_code = last_request'.input_code }) >= 2 )
        => (build_queue' = build_queue /\ Iteration' = Iteration) ]_vars

\* Whether the guard of the specification lets (n, c) through: the name has
\* no Iteration, or its most recent Iteration was built from other code.
PassesGuard(n, c) ==
    \/ latest_iteration(n) = 0
    \/ Iteration[latest_iteration(n)].input_code # c

\* C4: a build request for a name with no Iteration, or with input_code
\* other than that of the name's most recent Iteration, is never turned
\* away: when build() answers, one work item for the name has been added at
\* the tail of the queue and its App has is_queued set.
C4_GuardPassesAreEnqueued ==
    [][ ( /\ last_request'.n = last_request.n + 1
          /\ PassesGuard(last_request'.name, last_request'.input_code) )
        => \E h \in 1..Len(App') :
              /\ App'[h].name = last_request'.name
              /\ App'[h].input_code = last_request'.input_code
              /\ App'[h].is_queued
              /\ build_queue' = Append(build_queue, h) ]_vars

\* C4 witness: a name has an Iteration built from one code, and a request
\* for it with other code is waiting in the queue, its App marked queued.
C4_Witness ==
    \E k \in 1..Len(build_queue) :
        LET a == App[build_queue[k]]
        IN  /\ a.is_queued
            /\ latest_iteration(a.name) # 0
            /\ Iteration[latest_iteration(a.name)].input_code # a.input_code

\* C5 (as claimed): the Iteration recorded by a pass whose oracle call
\* failed has output_code equal to its own input_code.
C5_FailedOracleKeepsInput ==
    [][ ( /\ worker.pc = "Executing"
          /\ worker.failed
          /\ Len(Iteration') = Len(Iteration) + 1 )
        => Latest(Iteration').output_code = Latest(Iteration').input_code
      ]_vars

\* C6: the i-th Iteration recorded is that of the i-th work item enqueued.
C6_RecordedInEnqueueOrder ==
    /\ Len(passes) <= Len(enqueued)
    /\ Len(Iteration) = Len(passes)
    /\ \A i \in 1..Len(passes) :
          /\ passes[i] = enqueued[i]
          /\ Iteration[i].app_name = App[enqueued[i]].name

\* C6 witness: two Iterations recorded, for work items of different names.
C6_Witness ==
    /\ Len(Iteration) >= 2
    /\ Iteration[1].app_name # Iteration[2].app_name

\* C7 (as claimed): the worker drops a work item whose App row is gone when
\* it is dequeued: it starts no pass, and the tables stay as they are.
C7_DeletedItemDropped ==
    [][ ( /\ build_queue # <<>>
          /\ build_queue' = Tail(build_queue)
          /\ Head(build_queue) \notin Rows )
        => (worker'.pc = "Idle" /\ Iteration' = Iteration /\ App' = App)
      ]_vars

\* C8 (as claimed): the worker loop never stops.
C8_WorkerNeverStops == worker.pc # "Dead"

\* C9 (as claimed): a Submission with a work item waiting in the queue or
\* in the worker's hands has queued = true.
C9_QueuedWhilePending ==
    \A h \in Rows :
        ( \/ \E k \in 1..Len(build_queue) : build_queue[k] = h
          \/ (InPass /\ worker.app = h) )
        => App[h].is_queued

\* Work items taken from the queue whose Iteration is not recorded yet.
Building == (Len(enqueued) - Len(build_queue)) - Len(passes)

\* C10: at most one work item is being built, and the worker takes the next
\* item only when every item taken before has been recorded and
\* acknowledged.
C10_OneBuildAtATime ==
    [][ /\ Building <= 1
        /\ Building' <= 1
        /\ Len(build_queue') < Len(build_queue)
           => /\ worker.pc = "Idle"
              /\ Building = 0
              /\ unfinished_tasks = Len(build_queue) ]_vars

\* C10 witness: a pass is running and a request accepted meanwhile is
\* waiting in the queue, both still unacknowledged.
C10_Witness ==
    /\ InPass
    /\ build_queue # <<>>
    /\ unfinished_tasks = 2

\* The rows of the App table that have name n.
RowsNamed(n) == { h \in Rows : App[h].name = n }

\* C11 (as claimed): when build() answers a request, the table holds exactly
\* one row of the request's name, that row holds the request's prompt,
\* input_code and language and is queued, it is the item added at the tail
\* of the queue, and every other row and the log are as before.
C11_BuildLeavesOneRow ==
    [][ \A t \in Threads, p \in Prompts, l \in Languages, c \in Codes :
          BuildCommit(t, p, l, c)
          => \E h \in Rows' :
                /\ { g \in Rows' : App'[g].name = req[t].name } = {h}
                /\ App'[h].prompt = p
                /\ App'[h].input_code = c
                /\ App'[h].language = l
                /\ App'[h].is_queued
                /\ build_queue' = Append(build_queue, h)
                /\ \A g \in Rows : g # h => (g \in Rows' /\ App'[g] = App[g])
                /\ Rows' \subseteq Rows \cup {h}
                /\ Iteration' = Iteration ]_vars

\* C12: a step that removes a row from the App table removes one row and
\* nothing else: the log, the queue and every other row are as before.
C12_DeleteAppRemovesOnlyTheRow ==
    [][ (Rows' # Rows /\ Rows' \subseteq Rows)
        => /\ Cardinality(Rows \ Rows') = 1
           /\ Iteration' = Iteration
           /\ build_queue' = build_queue
           /\ Len(App') = Len(App)
           /\ \A g \in Rows' : App'[g] = App[g] ]_vars

\* C12 witness: a row has been deleted, the log holds an Iteration of its
\* name, and no row of that name is in the table.
C12_Witness ==
    \E h \in Handles \ Rows :
        /\ iterations_of(App[h].name) # {}
        /\ RowsNamed(App[h].name) = {}

\* What the oracle adapter is specified to return: the text between the
\* first fence and the next one, and input_code when there is no such pair.
FirstFencedBlockOrInput(text, input_code) ==
    LET i == find(text, Fence)
        rest == SubSeq(text, i + Len(Fence), Len(text))
        j == find(rest, Fence)
    IN  IF i = 0 \/ j = 0 THEN input_code ELSE SubSeq(rest, 1, j - 1)

\* C13 (as claimed): when the completion call returns a text, run_llm hands
\* the worker the first fenced block of it, and input_code when the text
\* has no fence or an opening fence that is never closed.
C13_FirstBlockOrInput ==
    [][ \A text \in Responses :
          OracleReturns(text)
          => worker'.output_code =
                 FirstFencedBlockOrInput(text, worker.input_code) ]_vars

\* C14 (as claimed): the Iteration a pass records holds the prompt and the
\* input_code the worker gave run_llm in that pass, and the output_code it
\* gave execute_code.
C14_IterationHoldsPassInputs ==
    [][ (worker.pc = "Executing" /\ Len(Iteration') = Len(Iteration) + 1)
        => /\ Latest(Iteration').prompt = worker.prompt
           /\ Latest(Iteration').input_code = worker.input_code
           /\ Latest(Iteration').output_code = worker.output_code ]_vars

\* C15: a step that changes the log is either a delete_iteration, or the
\* recording step of a pass, which leaves every recorded Iteration as it
\* was and adds one Iteration at the end.
C15_LogAppendOnly ==
    [][ Iteration' # Iteration
        => \/ \E i \in 1..Len(Iteration) : delete_iteration(i)
           \/ /\ worker.pc = "Executing"
              /\ Len(Iteration') = Len(Iteration) + 1
              /\ SubSeq(Iteration', 1, Len(Iteration)) = Iteration ]_vars

\* C15 witness: a pass has appended to a log that held an Iteration, and a
\* row has been deleted while its Iterations stay in the log.
C15_Witness ==
    /\ Len(Iteration) = 2
    /\ \E h \in Handles \ Rows : iterations_of(App[h].name) # {}

\* The queue has drained: nothing pending, the worker waiting, one Iteration
\* per accepted request, no row flagged as queued.
Drained ==
    /\ build_queue = <<>>
    /\ worker.pc = "Idle"
    /\ Len(Iteration) = last_request.n
    /\ \A h \in Rows : ~App[h].is_queued

\* C16 (as claimed): when the calls return and the worker is scheduled
\* fairly, from some point on the queue is drained for good (the requests
\* of a run are finitely many).
C16_QueueDrains == <>[]Drained

\* C17: a step that clears the queued flag of a row outside the worker's
\* status update changes that flag only: the queue, the log, the count of
\* unfinished tasks and every other field and row are as before.
C17_RemoveFromQueueOnlyClearsFlag ==
    [][ \A h \in Rows :
          (App[h].is_queued /\ ~App'[h].is_queued /\ worker' = worker)
          => /\ App' = [App EXCEPT ![h].is_queued = FALSE]
             /\ build_queue' = build_queue
             /\ unfinished_tasks' = unfinished_tasks
             /\ Iteration' = Iteration ]_vars

\* C17 witness: the first pass of the run has recorded its Iteration for a
\* row whose flag reads false, so the flag was cleared by remove_from_queue
\* while the item was pending or in flight.
C17_Witness ==
    /\ worker.pc = "Recording"
    /\ passes = <<worker.app>>
    /\ worker.app \in Rows
    /\ ~App[worker.app].is_queued
    /\ Latest(Iteration).app_name = App[worker.app].name

\* C18: a step of the worker creates no row and leaves every row as it
\* was, except that the status update clears the queued flag of the row the
\* pass was for.
C18_WorkerWritesOnlyItsFlag ==
    [][ worker' # worker
        => /\ Len(App') = Len(App)
           /\ \A h \in Handles :
                \/ App'[h] = App[h]
                \/ /\ worker.pc = "Recording"
                   /\ h = worker.app
                   /\ App'[h] = [App[h] EXCEPT !.is_queued = FALSE] ]_vars

\* C18 witness: a pass has ended after a resubmission was accepted during
\* it: the row holds the resubmitted code and its item is still pending.
C18_Witness ==
    /\ worker.pc = "Idle"
    /\ Len(passes) = 1
    /\ App[passes[1]].input_code # Latest(Iteration).input_code
    /\ ~App[passes[1]].is_queued
    /\ build_queue = <<passes[1]>>

\* The items the worker holds that have not reached the log yet.
InFlight == IF worker.pc \in {"Revising", "Executing"} THEN 1 ELSE 0

\* C19 (as claimed): the accepted requests are as many as the Iterations in
\* the log, the items pending in the queue and the item in flight together.
C19_NoItemLostOrDuplicated ==
    last_request.n = Len(Iteration) + Len(build_queue) + InFlight

====
